---- MODULE Spec2Model ----
(***************************************************************************)
(* Model of the k-mer encoder ReadsProcessor (Common/ReadsProcessor.cpp)   *)
(* and of the contig segment arithmetic SegmentCalc (Common/Segment.h).    *)
(*                                                                         *)
(* A byte is a number in 0..255.  A size_t value is represented by the     *)
(* integer congruent to it modulo 2^64 that lies nearest to zero, so that  *)
(* SIZE_MAX is -1; the unsigned comparisons are ULt and ULe.  A sequence   *)
(* of characters is a TLA+ sequence of one-letter strings, sequence[i] of  *)
(* the code being seq[i + 1] here.                                          *)
(***************************************************************************)
EXTENDS Integers, Sequences, FiniteSets, TLC

\* ------------------------------------------------------------------ bounds

\* windows over the whole alphabet {A,C,G,T} are drawn up to this length
MaxFullK == 5

\* windows over the complementary pair {A,T} are drawn up to this length
MaxK == 10

\* the window starts at a position in 0..MaxPos of the sequence
MaxPos == 1

\* SegmentCalc is constructed with a segment size in 1..MaxSegmentSize
MaxSegmentSize == 4

\* and asked about sequences of a length in 1..MaxSeqLen
MaxSeqLen == 13
MaxReuseK == 5
MaxRaceK == 5

\* ------------------------------------------------------------- characters

Bases == {"A", "C", "G", "T"}

ValidChars == {"A", "C", "G", "T", "a", "c", "g", "t"}

\* one representative of the characters the tables map to 0xFF
InvalidChar == "N"

Upper(c) ==
  CASE c = "a" -> "A" [] c = "c" -> "C" [] c = "g" -> "G" [] c = "t" -> "T"
    [] OTHER -> c

Lower(c) ==
  CASE c = "A" -> "a" [] c = "C" -> "c" [] c = "G" -> "g" [] c = "T" -> "t"
    [] OTHER -> c

\* the 2-bit code of a base: the nonzero entries of fw3
Code(c) ==
  CASE Upper(c) = "A" -> 0 [] Upper(c) = "C" -> 1 [] Upper(c) = "G" -> 2
    [] Upper(c) = "T" -> 3

Complement(c) ==
  CASE c = "A" -> "T" [] c = "C" -> "G" [] c = "G" -> "C" [] c = "T" -> "A"
    [] c = "a" -> "t" [] c = "c" -> "g" [] c = "g" -> "c" [] c = "t" -> "a"
    [] OTHER -> c

\* ------------------------------------------------------------------ bytes

RECURSIVE BitOr(_, _, _)
BitOr(a, b, n) ==
  IF n = 0 THEN 0
  ELSE (IF a % 2 = 1 \/ b % 2 = 1 THEN 1 ELSE 0)
       + 2 * BitOr(a \div 2, b \div 2, n - 1)

\* a | b on unsigned char
Or8(a, b) == BitOr(a, b, 8)

\* (unsigned char)(a << 2)
Shl2(a) == (a * 4) % 256

\* a >> 2 on unsigned char
Shr2(a) == a \div 4

\* unsigned comparison of two size_t values
ULt(a, b) == IF (a < 0) = (b < 0) THEN a < b ELSE b < 0

ULe(a, b) == a = b \/ ULt(a, b)

\* ----------------------------------------------------------------- tables

fw0(c) == IF c \in ValidChars THEN Code(c) * 64 ELSE 255

fw1(c) == IF c \in ValidChars THEN Code(c) * 16 ELSE 255

fw2(c) == IF c \in ValidChars THEN Code(c) * 4 ELSE 255

fw3(c) == IF c \in ValidChars THEN Code(c) ELSE 255

\* rv0 without the complement
rv0_NoComplement(c) == IF c \in ValidChars THEN Code(c) * 64 ELSE 255

rv0(c) == IF c \in ValidChars THEN (3 - Code(c)) * 64 ELSE 255

rv1(c) == IF c \in ValidChars THEN (3 - Code(c)) * 16 ELSE 255

rv2(c) == IF c \in ValidChars THEN (3 - Code(c)) * 4 ELSE 255

rv3(c) == IF c \in ValidChars THEN 3 - Code(c) ELSE 255

\* --------------------------------------------------------------- geometry

\* the member initialisers of the constructor
InitKmerSizeInBytes(windowSize) == windowSize \div 4

\* windowSize / 16 where windowSize / 8 is meant
InitHalfSize_Sixteenth(windowSize) == windowSize \div 16

\* windowSize / 4 where windowSize / 8 is meant
InitHalfSize_Quarter(windowSize) == windowSize \div 4

InitHalfSizeOfKmerInBytes(windowSize) == windowSize \div 8

\* the members the constructor leaves once its body has run
Geometry(windowSize) ==
  LET B0 == InitKmerSizeInBytes(windowSize)
      H0 == InitHalfSizeOfKmerInBytes(windowSize)
      odd8 == windowSize % 8 # 0
      hang == IF odd8 THEN windowSize % 4 ELSE 0
      more == odd8 /\ hang % 4 # 0
  IN [ k |-> windowSize,
       B |-> IF more THEN B0 + 1 ELSE B0,
       H |-> IF odd8 THEN H0 + 1 ELSE H0,
       hang |-> hang,
       hangE |-> IF more THEN 1 ELSE 0 ]

\* the assertion off by one
KmerSizeAccepted_OffByOne(windowSize) == windowSize > 2

\* the assertion of the constructor
KmerSizeAccepted(windowSize) == windowSize > 3

\* the content of a buffer cell that new[] has not written
Uninit == -1

\* new unsigned char[n]
NewBuffer(n) == [i \in 0 .. n - 1 |-> Uninit]

\* ---------------------------------------------------------------- prepSeq
(***************************************************************************)
(* One call of prepSeq is a frame f: the geometry f.g of the instance, the *)
(* argument f.seq, the locals (index, revIndex, outputIndex, lastPos and   *)
(* the by-value parameter position), the two buffers of the instance, the  *)
(* statement f.pc the call is at (named by its source line), and the       *)
(* returned pointer f.ret.  f.past holds, per buffer, the heap byte that   *)
(* lies behind the allocation, f.junk the character a read outside the     *)
(* sequence yields (both indeterminate).  f.reads and f.acc record every   *)
(* sequence index read and every buffer cell <<buffer, index>> touched.    *)
(***************************************************************************)

\* sequence[i], recording the index
SeqAt(f, i) == IF i >= 0 /\ i < Len(f.seq) THEN f.seq[i + 1] ELSE f.junk

Touch(f, i) == [f EXCEPT !.reads = @ \cup {i}]

InBuffer(f, i) == i >= 0 /\ i < f.g.B

\* m_fw[i] or m_rv[i] as an rvalue
BufAt(f, b, i) == IF InBuffer(f, i) THEN f[b][i] ELSE f.past[b]

\* m_fw[i] = v or m_rv[i] = v
BufPut(f, b, i, v) ==
  IF InBuffer(f, i)
  THEN [f EXCEPT ![b][i] = v, !.acc = @ \cup {<<b, i>>}]
  ELSE [f EXCEPT !.past[b] = v, !.acc = @ \cup {<<b, i>>}]

\* the buffer zeroed only while it is as the constructor left it
Memset_OnceOnly(f, b) ==
  IF \E i \in 0 .. f.g.B - 1 : f[b][i] = Uninit
  THEN [f EXCEPT ![b] = [i \in 0 .. f.g.B - 1 |-> 0],
                 !.acc = @ \cup {<<b, i>> : i \in 0 .. f.g.B - 1}]
  ELSE [f EXCEPT !.acc = @ \cup {<<b, i>> : i \in 0 .. f.g.B - 1}]

\* memset(buf, 0, m_kmerSizeInBytes)
Memset(f, b) ==
  [f EXCEPT ![b] = [i \in 0 .. f.g.B - 1 |-> 0],
            !.acc = @ \cup {<<b, i>> : i \in 0 .. f.g.B - 1}]

\* buf[outputIndex] |= v
OrInto(f, b, v) ==
  BufPut(f, b, f.outputIndex, Or8(BufAt(f, b, f.outputIndex), v))

At(f, label) == [f EXCEPT !.pc = label]

Return(f, r) == [f EXCEPT !.pc = "done", !.ret = r]

\* m_fw[outputIndex] |= T[sequence[index++]]
FwStep(f, v, next) ==
  At([OrInto(Touch(f, f.index), "fw", v) EXCEPT !.index = @ + 1], next)

\* m_rv[outputIndex] |= T[sequence[revIndex--]]
RvStep(f, v, next) ==
  At([OrInto(Touch(f, f.revIndex), "rv", v) EXCEPT !.revIndex = @ - 1], next)

\* the check made on the byte with its fourth character already in it
CheckStep_AfterOr(f, b, cursor, v, next) ==
  IF Or8(BufAt(f, b, f.outputIndex), v) = 255
  THEN Return(Touch([f EXCEPT !.acc = @ \cup {<<b, f.outputIndex>>}],
                    cursor), "NULL")
  ELSE At(Touch([f EXCEPT !.acc = @ \cup {<<b, f.outputIndex>>}], cursor),
          next)

\* the check without its look-ahead at the fourth character
CheckStep_NoLookahead(f, b, cursor, v, next) ==
  IF BufAt(f, b, f.outputIndex) = 255
  THEN Return([f EXCEPT !.acc = @ \cup {<<b, f.outputIndex>>}], "NULL")
  ELSE At([f EXCEPT !.acc = @ \cup {<<b, f.outputIndex>>}], next)

\* if (buf[outputIndex] == 0xFF || T3[sequence[cursor]] == 0xFF) return NULL;
\* the second operand is read only when the first is false
CheckStep(f, b, cursor, v, next) ==
  IF BufAt(f, b, f.outputIndex) = 255
  THEN Return([f EXCEPT !.acc = @ \cup {<<b, f.outputIndex>>}], "NULL")
  ELSE IF v = 255
       THEN Return(Touch([f EXCEPT !.acc = @ \cup {<<b, f.outputIndex>>}],
                         cursor), "NULL")
       ELSE At(Touch([f EXCEPT !.acc = @ \cup {<<b, f.outputIndex>>}],
                     cursor), next)

\* if (buf[outputIndex] == 0xFF) return NULL; return buf;
LastCheck(f, b) ==
  Return([f EXCEPT !.acc = @ \cup {<<b, f.outputIndex>>}],
         IF BufAt(f, b, f.outputIndex) = 255 THEN "NULL" ELSE b)

\* the entry with the reverse cursor one character too far
Enter_RevOffByOne(g, fw, rv, seq, position, past, junk) ==
  [ pc |-> "L364", g |-> g, seq |-> seq, position |-> position,
    index |-> position, revIndex |-> position + g.k, outputIndex |-> 0,
    lastPos |-> 0, fw |-> fw, rv |-> rv,
    past |-> [fw |-> past, rv |-> past], junk |-> junk,
    ret |-> "none", reads |-> {}, acc |-> {} ]

\* the entry of prepSeq(sequence, position) on an instance of geometry g
\* whose buffers hold fw and rv
Enter(g, fw, rv, seq, position, past, junk) ==
  [ pc |-> "L364", g |-> g, seq |-> seq, position |-> position,
    index |-> position, revIndex |-> position + g.k - 1, outputIndex |-> 0,
    lastPos |-> 0, fw |-> fw, rv |-> rv,
    past |-> [fw |-> past, rv |-> past], junk |-> junk,
    ret |-> "none", reads |-> {}, acc |-> {} ]

\* the main loop: lines 364-407 and 447
MainStep(f) ==
  LET oi == f.outputIndex IN
  CASE f.pc = "L364" -> At(Memset(f, "fw"), "L365")
    [] f.pc = "L365" -> At(Memset(f, "rv"), "L370")
    [] f.pc = "L370" ->
         IF oi < f.g.H THEN At(f, "L374") ELSE At(f, "L487")
    [] f.pc = "L374" -> FwStep(f, fw0(SeqAt(f, f.index)), "L375")
    [] f.pc = "L375" -> FwStep(f, fw1(SeqAt(f, f.index)), "L376")
    [] f.pc = "L376" -> FwStep(f, fw2(SeqAt(f, f.index)), "L379")
    [] f.pc = "L379" ->
         CheckStep(f, "fw", f.index, fw3(SeqAt(f, f.index)), "L385")
    [] f.pc = "L385" -> FwStep(f, fw3(SeqAt(f, f.index)), "L389")
    [] f.pc = "L389" -> RvStep(f, rv0(SeqAt(f, f.revIndex)), "L391")
    [] f.pc = "L391" -> RvStep(f, rv1(SeqAt(f, f.revIndex)), "L393")
    [] f.pc = "L393" -> RvStep(f, rv2(SeqAt(f, f.revIndex)), "L396")
    [] f.pc = "L396" ->
         CheckStep(f, "rv", f.revIndex, rv3(SeqAt(f, f.revIndex)), "L402")
    [] f.pc = "L402" -> RvStep(f, rv3(SeqAt(f, f.revIndex)), "L407")
    [] f.pc = "L407" ->
         LET g == [f EXCEPT !.acc = @ \cup {<<"fw", oi>>, <<"rv", oi>>},
                            !.outputIndex = oi + 1]
         IN IF BufAt(f, "fw", oi) < BufAt(f, "rv", oi) THEN At(g, "L410")
            ELSE IF BufAt(f, "fw", oi) > BufAt(f, "rv", oi) THEN At(g, "L450")
            ELSE At(g, "L370")

\* forward is smaller: lines 409-444
ForwardStep(f) ==
  LET oi == f.outputIndex IN
  CASE f.pc = "L410" ->
         IF oi + f.g.hangE < f.g.B THEN At(f, "L414") ELSE At(f, "L431")
    [] f.pc = "L414" -> FwStep(f, fw0(SeqAt(f, f.index)), "L416")
    [] f.pc = "L416" -> FwStep(f, fw1(SeqAt(f, f.index)), "L418")
    [] f.pc = "L418" -> FwStep(f, fw2(SeqAt(f, f.index)), "L421")
    [] f.pc = "L421" ->
         CheckStep(f, "fw", f.index, fw3(SeqAt(f, f.index)), "L427")
    [] f.pc = "L427" ->
         [FwStep(f, fw3(SeqAt(f, f.index)), "L410")
            EXCEPT !.outputIndex = oi + 1]
    [] f.pc = "L431" ->
         IF f.g.hangE # 0
         THEN At([f EXCEPT !.lastPos = f.position + f.g.k - 1], "L433")
         ELSE Return(f, "fw")
    [] f.pc = "L433" ->
         At([BufPut(Touch(f, f.lastPos), "fw", oi, fw0(SeqAt(f, f.lastPos)))
               EXCEPT !.lastPos = @ - 1], "L435")
    [] f.pc = "L435" ->
         IF ULe(f.index, f.lastPos) THEN At(f, "L436") ELSE At(f, "L440")
    [] f.pc = "L436" ->
         At(BufPut(f, "fw", oi, Shr2(BufAt(f, "fw", oi))), "L437")
    [] f.pc = "L437" ->
         At([OrInto(Touch(f, f.lastPos), "fw", fw0(SeqAt(f, f.lastPos)))
               EXCEPT !.lastPos = @ - 1], "L435")
    [] f.pc = "L440" -> LastCheck(f, "fw")

\* reverse is smaller: lines 449-482
ReverseStep(f) ==
  LET oi == f.outputIndex IN
  CASE f.pc = "L450" ->
         IF oi + f.g.hangE < f.g.B THEN At(f, "L453") ELSE At(f, "L470")
    [] f.pc = "L453" -> RvStep(f, rv0(SeqAt(f, f.revIndex)), "L455")
    [] f.pc = "L455" -> RvStep(f, rv1(SeqAt(f, f.revIndex)), "L457")
    [] f.pc = "L457" -> RvStep(f, rv2(SeqAt(f, f.revIndex)), "L460")
    [] f.pc = "L460" ->
         CheckStep(f, "rv", f.revIndex, rv3(SeqAt(f, f.revIndex)), "L466")
    [] f.pc = "L466" ->
         [RvStep(f, rv3(SeqAt(f, f.revIndex)), "L450")
            EXCEPT !.outputIndex = oi + 1]
    [] f.pc = "L470" ->
         IF f.g.hangE # 0 THEN At(f, "L471") ELSE Return(f, "rv")
    [] f.pc = "L471" ->
         At([BufPut(Touch(f, f.position), "rv", oi,
                    rv0(SeqAt(f, f.position)))
               EXCEPT !.position = @ + 1], "L473")
    [] f.pc = "L473" ->
         IF ULe(f.position, f.revIndex) THEN At(f, "L474") ELSE At(f, "L478")
    [] f.pc = "L474" ->
         At(BufPut(f, "rv", oi, Shr2(BufAt(f, "rv", oi))), "L475")
    [] f.pc = "L475" ->
         At([OrInto(Touch(f, f.position), "rv", rv0(SeqAt(f, f.position)))
               EXCEPT !.position = @ + 1], "L473")
    [] f.pc = "L478" -> LastCheck(f, "rv")

\* all compared bytes tie: lines 485-515
PalindromeStep(f) ==
  LET oi == f.outputIndex IN
  CASE f.pc = "L487" -> At([f EXCEPT !.outputIndex = oi + 1], "L488")
    [] f.pc = "L488" ->
         IF oi + f.g.hangE < f.g.B THEN At(f, "L491") ELSE At(f, "L503")
    [] f.pc = "L491" -> FwStep(f, fw0(SeqAt(f, f.index)), "L492")
    [] f.pc = "L492" -> FwStep(f, fw1(SeqAt(f, f.index)), "L493")
    [] f.pc = "L493" -> FwStep(f, fw2(SeqAt(f, f.index)), "L495")
    [] f.pc = "L495" ->
         CheckStep(f, "fw", f.index, fw3(SeqAt(f, f.index)), "L500")
    [] f.pc = "L500" ->
         At([OrInto(Touch(f, f.index), "fw", fw3(SeqAt(f, f.index)))
               EXCEPT !.outputIndex = oi + 1], "L488")
    [] f.pc = "L503" ->
         IF f.g.hang # 0
         THEN At([f EXCEPT !.lastPos = f.position + f.g.k - 1], "L505")
         ELSE Return(f, "fw")
    [] f.pc = "L505" ->
         At(OrInto(Touch(f, f.lastPos), "fw", fw0(SeqAt(f, f.lastPos))),
            "L506")
    [] f.pc = "L506" ->
         IF ULt(f.index, f.lastPos) THEN At(f, "L507") ELSE At(f, "L511")
    [] f.pc = "L507" ->
         At(BufPut(f, "fw", oi, Shl2(BufAt(f, "fw", oi))), "L508")
    [] f.pc = "L508" ->
         At([OrInto(Touch(f, f.lastPos), "fw", fw0(SeqAt(f, f.lastPos)))
               EXCEPT !.lastPos = @ - 1], "L506")
    [] f.pc = "L511" -> LastCheck(f, "fw")

MainLabels ==
  {"L364", "L365", "L370", "L374", "L375", "L376", "L379", "L385", "L389",
   "L391", "L393", "L396", "L402", "L407"}

ForwardLabels ==
  {"L410", "L414", "L416", "L418", "L421", "L427", "L431", "L433", "L435",
   "L436", "L437", "L440"}

ReverseLabels ==
  {"L450", "L453", "L455", "L457", "L460", "L466", "L470", "L471", "L473",
   "L474", "L475", "L478"}

\* one statement of prepSeq
PrepSeqStep(f) ==
  IF f.pc \in MainLabels THEN MainStep(f)
  ELSE IF f.pc \in ForwardLabels THEN ForwardStep(f)
  ELSE IF f.pc \in ReverseLabels THEN ReverseStep(f)
  ELSE PalindromeStep(f)

\* prepSeq from a frame to its return
RECURSIVE PrepSeqRun(_)
PrepSeqRun(f) == IF f.pc = "done" THEN f ELSE PrepSeqRun(PrepSeqStep(f))

\* --------------------------------------------------------------- getBases

\* the letters in the order "AGCT"
BaseLetter_Swapped(code) ==
  CASE code = 0 -> "A" [] code = 1 -> "G" [] code = 2 -> "C" [] code = 3 -> "T"

\* the letter of ("ACGT")[code]
BaseLetter(code) ==
  CASE code = 0 -> "A" [] code = 1 -> "C" [] code = 2 -> "G" [] code = 3 -> "T"

\* the loop of getBases over i, currentIndex and currentOffset; c is the
\* array behind the pointer, n its allocated length; out.read collects the
\* indices of c that are read
RECURSIVE GetBasesLoop(_, _, _, _, _, _, _)
GetBasesLoop(c, n, kmerSize, i, currentIndex, currentOffset, out) ==
  IF ~(i < kmerSize) THEN out
  ELSE LET idx == IF currentOffset = -1 THEN currentIndex + 1
                  ELSE currentIndex
           off == IF currentOffset = -1 THEN 3 ELSE currentOffset
           currentChr == IF idx < n THEN c[idx] ELSE 0
           code == (currentChr \div (4 ^ off)) % 4
       IN GetBasesLoop(c, n, kmerSize, i + 1, idx, off - 1,
                       [bases |-> Append(out.bases, BaseLetter(code)),
                        read |-> out.read \cup {idx}])

getBases(c, n, kmerSize) ==
  GetBasesLoop(c, n, kmerSize, 0, 0, 3, [bases |-> <<>>, read |-> {}])

\* ----------------------------------------------------------------- inputs

Byte == 0 .. 255

AllChars == ValidChars \cup {InvalidChar}

KmerSizes == 0 .. MaxK

\* the letters the windows of length k are drawn over
Alphabet(k) == IF k <= MaxFullK THEN Bases ELSE {"A", "T"}

BaseWindows(k) == [1 .. k -> Alphabet(k)]

\* what is done to a window of upper-case bases: nothing, every letter or
\* every second letter lower-cased, or one letter replaced by a character
\* that is no base
Masks(k) ==
  {[kind |-> "upper", at |-> 0], [kind |-> "lower", at |-> 0],
   [kind |-> "mixed", at |-> 0]}
  \cup {[kind |-> "bad", at |-> i] : i \in 1 .. k}

ApplyMask(w, m) ==
  [i \in 1 .. Len(w) |->
     CASE m.kind = "upper" -> w[i]
       [] m.kind = "lower" -> Lower(w[i])
       [] m.kind = "mixed" -> IF i % 2 = 1 THEN Lower(w[i]) ELSE w[i]
       [] m.kind = "bad" -> IF i = m.at THEN InvalidChar ELSE w[i]]

\* the sequence that holds window w at position pos and ends with it
Padded(w, pos) == [i \in 1 .. pos |-> InvalidChar] \o w

\* --------------------------------------------------------------- encoder

VARIABLES
  phase,                    \* "unconstructed", "aborted", "ready",
                            \* "returned" (prepSeq has), "decoded"
  m_kmerSize, m_kmerSizeInBytes, m_halfSizeOfKmerInBytes,
  m_hangingBases, m_hangingBasesExist,
  m_fw, m_rv,               \* the buffers, <<>> while not allocated
  sequence, position,       \* the arguments of the prepSeq call
  ret,                      \* what it returned: "NULL", "fw" or "rv"
  reads, acc,               \* the sequence indices and buffer cells it used
  bases, basesRead,         \* the result of getBases and the cells it read
  m_segmentSize,            \* SegmentCalc, 0 while not constructed
  segCall,                  \* the last call on it and its result
  threads,                  \* per thread, the frame of its prepSeq call
  overlapped                \* per thread, whether its call ran while the
                            \* other thread's call was running

encoderVars ==
  <<phase, m_kmerSize, m_kmerSizeInBytes, m_halfSizeOfKmerInBytes,
    m_hangingBases, m_hangingBasesExist, m_fw, m_rv, sequence, position,
    ret, reads, acc, bases, basesRead>>

segmentVars == <<m_segmentSize, segCall>>

raceVars == <<threads, overlapped>>

vars == <<encoderVars, segmentVars, raceVars>>

Threads == {1, 2}

\* a thread that has not called prepSeq
Idle == [pc |-> "idle"]

NoCall == [op |-> "none"]

Init ==
  /\ phase = "unconstructed"
  /\ m_kmerSize = 0
  /\ m_kmerSizeInBytes = 0
  /\ m_halfSizeOfKmerInBytes = 0
  /\ m_hangingBases = 0
  /\ m_hangingBasesExist = 0
  /\ m_fw = <<>>
  /\ m_rv = <<>>
  /\ sequence = <<>>
  /\ position = 0
  /\ ret = "none"
  /\ reads = {}
  /\ acc = {}
  /\ bases = <<>>
  /\ basesRead = {}
  /\ m_segmentSize = 0
  /\ segCall = NoCall
  /\ threads = [t \in Threads |-> Idle]
  /\ overlapped = [t \in Threads |-> FALSE]

\* ReadsProcessor(windowSize): the initialisers run, then the assertion
\* aborts the program or the body computes the sizes and allocates
Construct(windowSize) ==
  /\ phase = "unconstructed"
  /\ m_kmerSize' = windowSize
  /\ IF KmerSizeAccepted(windowSize)
     THEN LET g == Geometry(windowSize) IN
          /\ phase' = "ready"
          /\ m_kmerSizeInBytes' = g.B
          /\ m_halfSizeOfKmerInBytes' = g.H
          /\ m_hangingBases' = g.hang
          /\ m_hangingBasesExist' = g.hangE
          /\ m_fw' = NewBuffer(g.B)
          /\ m_rv' = NewBuffer(g.B)
     ELSE /\ phase' = "aborted"
          /\ m_kmerSizeInBytes' = InitKmerSizeInBytes(windowSize)
          /\ m_halfSizeOfKmerInBytes' = InitHalfSizeOfKmerInBytes(windowSize)
          /\ UNCHANGED <<m_hangingBases, m_hangingBasesExist, m_fw, m_rv>>
  /\ UNCHANGED <<sequence, position, ret, reads, acc, bases, basesRead>>
  /\ UNCHANGED <<segmentVars, raceVars>>

\* the members of the instance, as prepSeq reads them
Members ==
  [ k |-> m_kmerSize, B |-> m_kmerSizeInBytes, H |-> m_halfSizeOfKmerInBytes,
    hang |-> m_hangingBases, hangE |-> m_hangingBasesExist ]

\* whether a finished call used a byte behind a buffer or a character
\* outside the sequence, whose values are indeterminate
UsedIndeterminate(f) ==
  \/ \E a \in f.acc : ~InBuffer(f, a[2])
  \/ \E i \in f.reads : ~(i >= 0 /\ i < Len(f.seq))

\* the outcomes of prepSeq(seq, pos) on an instance of geometry g whose
\* buffers hold fw and rv: one, unless the call uses indeterminate values
PrepSeqOutcomes(g, fw, rv, seq, pos) ==
  LET f0 == PrepSeqRun(Enter(g, fw, rv, seq, pos, 0, InvalidChar))
  IN IF UsedIndeterminate(f0)
     THEN {PrepSeqRun(Enter(g, fw, rv, seq, pos, p, j)) :
             p \in (IF \E a \in f0.acc : ~InBuffer(f0, a[2])
                    THEN Byte ELSE {0}),
             j \in (IF \E i \in f0.reads : ~(i >= 0 /\ i < Len(seq))
                    THEN AllChars ELSE {InvalidChar})}
     ELSE {f0}

\* prepSeq(sequence, position) on the instance
PrepSeq(seq, pos) ==
  /\ phase = "ready"
  /\ \E f \in PrepSeqOutcomes(Members, m_fw, m_rv, seq, pos) :
       /\ m_fw' = f.fw
       /\ m_rv' = f.rv
       /\ ret' = f.ret
       /\ reads' = f.reads
       /\ acc' = f.acc
  /\ phase' = "returned"
  /\ sequence' = seq
  /\ position' = pos
  /\ UNCHANGED <<m_kmerSize, m_kmerSizeInBytes, m_halfSizeOfKmerInBytes,
                 m_hangingBases, m_hangingBasesExist, bases, basesRead>>
  /\ UNCHANGED <<segmentVars, raceVars>>

\* the buffer a returned pointer points to
Returned == IF ret = "rv" THEN m_rv ELSE m_fw

\* getBases on the pointer prepSeq returned
GetBases ==
  /\ phase = "returned"
  /\ ret # "NULL"
  /\ LET out == getBases(Returned, m_kmerSizeInBytes, m_kmerSize) IN
       /\ bases' = out.bases
       /\ basesRead' = out.read
  /\ phase' = "decoded"
  /\ UNCHANGED <<m_kmerSize, m_kmerSizeInBytes, m_halfSizeOfKmerInBytes,
                 m_hangingBases, m_hangingBasesExist, m_fw, m_rv, sequence,
                 position, ret, reads, acc>>
  /\ UNCHANGED <<segmentVars, raceVars>>

\* ------------------------------------------------------------ SegmentCalc
(***************************************************************************)
(* An unsigned value is represented like a size_t, modulo 2^32, so that    *)
(* MIDDLE_SEGMENT, unsigned(-1), is -1.  Every function returns a record:  *)
(* v the value, abort whether an assertion failed on the way, wrapped      *)
(* whether an unsigned subtraction went below zero.                         *)
(***************************************************************************)

MIDDLE_SEGMENT == -1

Value(v) == [v |-> v, abort |-> FALSE, wrapped |-> FALSE]

Aborted == [v |-> 0, abort |-> TRUE, wrapped |-> FALSE]

\* (2^32 + d) / s for -2^31 < d < 0 and s > 1, without leaving 32 bits
WrappedDiv(d, s) ==
  LET M == 2147483647
  IN 2 * (M \div s) + ((2 * (M % s) + 2 + d) \div s)

\* segmentsPerHalf(l) on an instance of segment size s
segmentsPerHalf(s, l) ==
  IF ~(s <= l \div 2) \/ ~(l % s > 0) THEN Aborted
  ELSE Value((l \div 2) \div s)

\* segments(l)
segments(s, l) ==
  IF ~(s <= l \div 2) THEN Aborted
  ELSE IF l % s = 0 THEN Value(l \div s)
  ELSE LET h == segmentsPerHalf(s, l)
       IN IF h.abort THEN Aborted ELSE Value(h.v * 2)

\* l % s where l - 2 * s * segmentsPerHalf(l) is meant
remainder_Mod(s, l) ==
  IF ~(s <= l \div 2) THEN Aborted ELSE Value(l % s)

\* remainder(l)
remainder(s, l) ==
  IF ~(s <= l \div 2) THEN Aborted
  ELSE IF l % s = 0 THEN Value(0)
  ELSE LET h == segmentsPerHalf(s, l)
       IN IF h.abort \/ ~(l > s * h.v * 2) THEN Aborted
          ELSE Value(l - s * h.v * 2)

\* start(l, index)
start(s, l, index) ==
  IF ~(s <= l \div 2) THEN Aborted
  ELSE IF l % s = 0 THEN Value(index * s + 1)
  ELSE LET h == segmentsPerHalf(s, l)
           r == remainder(s, l)
       IN IF h.abort THEN Aborted
          ELSE IF index < h.v THEN Value(index * s + 1)
          ELSE IF r.abort THEN Aborted
          ELSE Value(h.v * s + r.v + (index - h.v) * s + 1)

\* index(pos, l)
index(s, pos, l) ==
  IF ~(pos > 0) \/ ~(pos <= l) \/ ~(s <= l \div 2) THEN Aborted
  ELSE LET p == pos - 1 IN
       IF l % s = 0 THEN Value(p \div s)
       ELSE LET h == segmentsPerHalf(s, l)
                r == remainder(s, l)
            IN IF p < l \div 2
               THEN IF h.abort THEN Aborted
                    ELSE IF p \div s >= h.v THEN Value(MIDDLE_SEGMENT)
                    ELSE Value(p \div s)
               ELSE IF r.abort \/ h.abort THEN Aborted
                    ELSE LET d == p - r.v
                             i == IF d >= 0 THEN d \div s
                                  ELSE WrappedDiv(d, s)
                         IN [v |-> IF i < h.v THEN MIDDLE_SEGMENT ELSE i,
                             abort |-> FALSE, wrapped |-> d < 0]

\* indexRange that ends a range in the middle at segmentsPerHalf(l)
indexRange_NoMinusOne(s, first, last, l) ==
  IF l < s * 2 THEN Value(<<0, 0, FALSE>>)
  ELSE LET a == index(s, first, l)
           b == index(s, last, l)
       IN IF a.abort \/ b.abort THEN Aborted
          ELSE IF a.v = MIDDLE_SEGMENT /\ b.v = MIDDLE_SEGMENT
          THEN Value(<<a.v, b.v, FALSE>>)
          ELSE LET h == segmentsPerHalf(s, l)
               IN IF a.v = MIDDLE_SEGMENT THEN Value(<<h.v, b.v, TRUE>>)
                  ELSE IF b.v = MIDDLE_SEGMENT THEN Value(<<a.v, h.v, TRUE>>)
                  ELSE Value(<<a.v, b.v, TRUE>>)

\* indexRange(start, end, l): v is <<first, second, flag>>
indexRange(s, first, last, l) ==
  IF l < s * 2 THEN Value(<<0, 0, FALSE>>)
  ELSE LET a == index(s, first, l)
           b == index(s, last, l)
       IN IF a.abort \/ b.abort THEN Aborted
          ELSE IF a.v = MIDDLE_SEGMENT /\ b.v = MIDDLE_SEGMENT
          THEN [v |-> <<a.v, b.v, FALSE>>, abort |-> FALSE,
                wrapped |-> a.wrapped \/ b.wrapped]
          ELSE LET h == segmentsPerHalf(s, l)
               IN IF a.v = MIDDLE_SEGMENT
                  THEN IF h.abort THEN Aborted
                       ELSE [v |-> <<h.v, b.v, TRUE>>, abort |-> FALSE,
                             wrapped |-> a.wrapped \/ b.wrapped]
                  ELSE IF b.v = MIDDLE_SEGMENT
                  THEN IF h.abort THEN Aborted
                       ELSE [v |-> <<a.v, h.v - 1, TRUE>>, abort |-> FALSE,
                             wrapped |-> a.wrapped \/ b.wrapped]
                  ELSE [v |-> <<a.v, b.v, TRUE>>, abort |-> FALSE,
                        wrapped |-> a.wrapped \/ b.wrapped]

\* SegmentCalc(segmentSize)
SegConstruct(segmentSize) ==
  /\ m_segmentSize = 0
  /\ m_segmentSize' = segmentSize
  /\ UNCHANGED <<segCall, encoderVars, raceVars>>

\* a call of index(pos, l) on the instance
SegIndex(pos, l) ==
  /\ m_segmentSize > 0
  /\ segCall = NoCall
  /\ segCall' = [op |-> "index", pos |-> pos, l |-> l,
                 res |-> index(m_segmentSize, pos, l)]
  /\ UNCHANGED <<m_segmentSize, encoderVars, raceVars>>

\* a call of indexRange(start, end, l) on the instance
SegIndexRange(first, last, l) ==
  /\ m_segmentSize > 0
  /\ segCall = NoCall
  /\ segCall' = [op |-> "indexRange", first |-> first, last |-> last,
                 l |-> l, res |-> indexRange(m_segmentSize, first, last, l)]
  /\ UNCHANGED <<m_segmentSize, encoderVars, raceVars>>

NextSeg ==
  \/ \E segmentSize \in 1 .. MaxSegmentSize : SegConstruct(segmentSize)
  \/ \E l \in 1 .. MaxSeqLen : \E pos \in 0 .. l + 1 : SegIndex(pos, l)
  \/ \E l \in 1 .. MaxSeqLen : \E first \in 1 .. l : \E last \in first .. l :
       SegIndexRange(first, last, l)

SpecSeg == Init /\ [][NextSeg]_vars

\* a caller's prepSeq on one of the windows drawn for the instance
PrepSeqCall ==
  /\ phase = "ready"
  /\ \E w \in BaseWindows(m_kmerSize), m \in Masks(m_kmerSize),
        pos \in 0 .. MaxPos :
       PrepSeq(Padded(ApplyMask(w, m), pos), pos)

Next ==
  \/ \E windowSize \in KmerSizes : Construct(windowSize)
  \/ PrepSeqCall
  \/ GetBases

Spec == Init /\ [][Next]_vars

\* ------------------------------------------- several calls on one instance

ReuseKmerSizes == 4 .. MaxReuseK

\* the arguments of the calls: windows over A and T, whole or with one
\* invalid character at the first, the middle or the last place
ReuseSequences(k) ==
  {ApplyMask(w, m) :
     w \in [1 .. k -> {"A", "T"}],
     m \in {[kind |-> "upper", at |-> 0]}
            \cup {[kind |-> "bad", at |-> i] : i \in {1, k \div 2 + 1, k}}}

\* prepSeq(sequence, position) on an instance prepSeq was called on before
PrepSeqAgain(seq, pos) ==
  /\ phase \in {"returned", "reused"}
  /\ \E f \in PrepSeqOutcomes(Members, m_fw, m_rv, seq, pos) :
       /\ m_fw' = f.fw
       /\ m_rv' = f.rv
       /\ ret' = f.ret
       /\ reads' = f.reads
       /\ acc' = f.acc
  /\ phase' = "reused"
  /\ sequence' = seq
  /\ position' = pos
  /\ UNCHANGED <<m_kmerSize, m_kmerSizeInBytes, m_halfSizeOfKmerInBytes,
                 m_hangingBases, m_hangingBasesExist, bases, basesRead>>
  /\ UNCHANGED <<segmentVars, raceVars>>

ReuseFirstCall ==
  /\ phase = "ready"
  /\ \E seq \in ReuseSequences(m_kmerSize) : PrepSeq(seq, 0)

ReuseLaterCall ==
  /\ phase \in {"returned", "reused"}
  /\ \E seq \in ReuseSequences(m_kmerSize) : PrepSeqAgain(seq, 0)

NextReuse ==
  \/ \E windowSize \in ReuseKmerSizes : Construct(windowSize)
  \/ ReuseFirstCall
  \/ ReuseLaterCall

SpecReuse == Init /\ [][NextReuse]_vars

\* ------------------------------------------ two threads on one instance
(***************************************************************************)
(* Each thread calls prepSeq once on the same instance.  A thread's frame  *)
(* holds its locals; the buffers are the members m_fw and m_rv, which both *)
(* calls write.  One step of a thread is one statement of prepSeq: a       *)
(* memset, a byte OR, a test or an assignment to a local.  The frame of a  *)
(* finished call keeps the bytes the buffers held when it returned.        *)
(***************************************************************************)

RaceKmerSizes == 4 .. MaxRaceK

\* the arguments of the calls: A...A, T...T and NA...A
RaceSequences(k) ==
  {[i \in 1 .. k |-> c] : c \in {"A", "T"}}
  \cup {[i \in 1 .. k |-> IF i = 1 THEN InvalidChar ELSE "A"]}

\* thread t is inside prepSeq
Running(t) == threads[t].pc \notin {"idle", "done"}

\* thread t enters prepSeq(seq, 0)
RaceEnter(t, seq) ==
  /\ phase = "ready"
  /\ threads[t] = Idle
  /\ threads' = [threads EXCEPT
                   ![t] = Enter(Members, <<>>, <<>>, seq, 0, 0, InvalidChar)]
  /\ overlapped' = IF \E u \in Threads \ {t} : Running(u)
                   THEN [u \in Threads |-> overlapped[u] \/ u = t
                                             \/ Running(u)]
                   ELSE overlapped
  /\ UNCHANGED <<encoderVars, segmentVars>>

\* thread t executes the statement it is at, on the buffers of the instance
RaceStep(t) ==
  /\ Running(t)
  /\ LET f == PrepSeqStep([threads[t] EXCEPT !.fw = m_fw, !.rv = m_rv]) IN
       /\ m_fw' = f.fw
       /\ m_rv' = f.rv
       /\ threads' = [threads EXCEPT
                        ![t] = IF f.pc = "done" THEN f
                               ELSE [f EXCEPT !.fw = <<>>, !.rv = <<>>]]
  /\ UNCHANGED <<phase, m_kmerSize, m_kmerSizeInBytes,
                 m_halfSizeOfKmerInBytes, m_hangingBases,
                 m_hangingBasesExist, sequence, position, ret, reads, acc,
                 bases, basesRead, overlapped>>
  /\ UNCHANGED segmentVars

NextRace ==
  \/ \E windowSize \in RaceKmerSizes : Construct(windowSize)
  \/ \E t \in Threads : \E seq \in RaceSequences(m_kmerSize) :
       RaceEnter(t, seq)
  \/ \E t \in Threads : RaceStep(t)

SpecRace == Init /\ [][NextRace]_vars

\* ------------------------------------------------- reference definitions
(***************************************************************************)
(* What the properties below compare the encoder with: the packing of a    *)
(* window four bases to a byte, most significant first, and the reverse    *)
(* complement of a window.                                                 *)
(***************************************************************************)

\* the window the call was made on
Window == SubSeq(sequence, position + 1, position + m_kmerSize)

IsValid(w) == \A i \in 1 .. Len(w) : w[i] \in ValidChars

UpperSeq(w) == [i \in 1 .. Len(w) |-> Upper(w[i])]

ReverseComplement(w) ==
  [i \in 1 .. Len(w) |-> Complement(w[Len(w) + 1 - i])]

CeilDiv(n, d) == (n + d - 1) \div d

\* the code of base t (0..3) of byte j, 0 where the window has ended
PackedCode(w, j, t) ==
  IF 4 * j + t + 1 <= Len(w) THEN Code(w[4 * j + t + 1]) ELSE 0

Pack(w) ==
  [j \in 0 .. CeilDiv(Len(w), 4) - 1 |->
     64 * PackedCode(w, j, 0) + 16 * PackedCode(w, j, 1)
     + 4 * PackedCode(w, j, 2) + PackedCode(w, j, 3)]

\* a < b as big-endian unsigned numbers of n bytes
BytesLess(a, b, n) ==
  \E j \in 0 .. n - 1 :
    /\ a[j] < b[j]
    /\ \A i \in 0 .. j - 1 : a[i] = b[i]

Canonical(w) ==
  LET n == CeilDiv(Len(w), 4)
      f == Pack(w)
      r == Pack(ReverseComplement(w))
  IN IF BytesLess(r, f, n) THEN r ELSE f

\* the first ceil(k/8) bytes of the two packings are equal
Tie(w) ==
  \A j \in 0 .. CeilDiv(Len(w), 8) - 1 :
    Pack(w)[j] = Pack(ReverseComplement(w))[j]

IsPalindrome(w) == UpperSeq(w) = ReverseComplement(UpperSeq(w))

\* ------------------------------------------------------------------ claims

\* C1: on a window of valid characters prepSeq returns ceil(k/4) bytes, the
\* smaller (as big-endian unsigned numbers) of the packing of the window
\* and the packing of its reverse complement.
C1_ReturnsCanonicalPacking ==
  (phase = "returned" /\ IsValid(Window))
    => (ret # "NULL" /\ Returned = Canonical(Window))

\* C1, on the windows whose compared bytes do not all tie: there the code
\* does return the canonical packing.
C1_CanonicalUnlessTie ==
  (phase = "returned" /\ IsValid(Window) /\ ~Tie(Window))
    => (ret # "NULL" /\ Returned = Canonical(Window))

\* C2: prepSeq on a valid window and prepSeq on its reverse complement,
\* given as a string of its own at position 0, return the same bytes.
C2_StrandSymmetry ==
  (phase = "returned" /\ IsValid(Window))
    => /\ ret # "NULL"
       /\ \A f \in PrepSeqOutcomes(Members, m_fw, m_rv,
                                   ReverseComplement(Window), 0) :
            f.ret # "NULL" /\ f[f.ret] = Returned

C2_Witness ==
  /\ phase = "returned"
  /\ IsValid(Window)
  /\ ~IsPalindrome(Window)
  /\ ret = "rv"
  /\ m_kmerSize = 9
  /\ position = 1

C4_ConstructionRejection ==
  /\ (phase # "unconstructed" /\ m_kmerSize <= 3)
       => (phase = "aborted" /\ m_fw = <<>> /\ m_rv = <<>>)
  /\ (phase # "unconstructed" /\ m_kmerSize > 3)
       => /\ phase # "aborted"
          /\ DOMAIN m_fw = 0 .. CeilDiv(m_kmerSize, 4) - 1
          /\ DOMAIN m_rv = 0 .. CeilDiv(m_kmerSize, 4) - 1

C4_Witness == phase = "aborted" /\ m_kmerSize = 3

\* C5: the bytes prepSeq returns for a reverse-complement palindrome are
\* returned for no valid window other than it and its reverse complement.
C5_PalindromeBytesUnique ==
  (phase = "returned" /\ IsValid(Window) /\ IsPalindrome(Window))
    => \A v \in BaseWindows(m_kmerSize) :
         (v # UpperSeq(Window) /\ v # ReverseComplement(UpperSeq(Window)))
           => \A f \in PrepSeqOutcomes(Members, m_fw, m_rv, v, 0) :
                f.ret = "NULL" \/ f[f.ret] # Returned

\* C6: where the compared bytes do not all tie, getBases of the returned
\* buffer is the window in upper case if the forward packing is the
\* smaller, its reverse complement otherwise; k letters, read from bytes
\* 0..B-1 only.
C6_RoundTrip ==
  (phase = "decoded" /\ ~Tie(Window))
    => /\ Len(bases) = m_kmerSize
       /\ bases = IF BytesLess(Pack(Window), Pack(ReverseComplement(Window)),
                               CeilDiv(m_kmerSize, 4))
                  THEN UpperSeq(Window)
                  ELSE ReverseComplement(UpperSeq(Window))
       /\ basesRead \subseteq 0 .. m_kmerSizeInBytes - 1

C6_Witness ==
  /\ phase = "decoded"
  /\ ~Tie(Window)
  /\ ret = "rv"
  /\ m_kmerSize = 7
  /\ bases = ReverseComplement(UpperSeq(Window))
  /\ \E i \in 1 .. 7 : Window[i] \notin Bases

\* C7: the constructor leaves m_kmerSizeInBytes = ceil(k/4),
\* m_halfSizeOfKmerInBytes = ceil(k/8), m_hangingBases = k mod 4 and
\* m_hangingBasesExist = 1 exactly when k mod 4 # 0, with 1 <= H <= B, and
\* both buffers have m_kmerSizeInBytes cells.
C7_Geometry ==
  phase \in {"ready", "returned", "decoded"}
    => /\ m_kmerSizeInBytes = CeilDiv(m_kmerSize, 4)
       /\ m_halfSizeOfKmerInBytes = CeilDiv(m_kmerSize, 8)
       /\ m_hangingBases = m_kmerSize % 4
       /\ m_hangingBasesExist = (IF m_kmerSize % 4 # 0 THEN 1 ELSE 0)
       /\ 1 <= m_halfSizeOfKmerInBytes
       /\ m_halfSizeOfKmerInBytes <= m_kmerSizeInBytes
       /\ DOMAIN m_fw = 0 .. m_kmerSizeInBytes - 1
       /\ DOMAIN m_rv = 0 .. m_kmerSizeInBytes - 1

C7_Witness ==
  /\ phase = "ready"
  /\ m_kmerSize = 9
  /\ m_kmerSizeInBytes = 3
  /\ m_halfSizeOfKmerInBytes = 2
  /\ m_hangingBases = 1

\* C10: on a valid window every cell of m_fw and m_rv that prepSeq reads or
\* writes has an index in 0..B-1.
C10_BufferAccessInBounds ==
  (phase = "returned" /\ IsValid(Window))
    => \A a \in acc : a[2] \in 0 .. m_kmerSizeInBytes - 1

\* the positions of a sequence of length l that no segment holds: those
\* between the last segment of the left half and the first of the right
InMiddle(s, l, pos) ==
  /\ l % s # 0
  /\ LET h == (l \div 2) \div s
     IN /\ start(s, l, h - 1).v + s - 1 < pos
        /\ pos < start(s, l, h).v

\* segment i of a sequence of length l holds a position of first..last
Overlaps(s, l, i, first, last) ==
  /\ start(s, l, i).v <= last
  /\ first <= start(s, l, i).v + s - 1

\* C8: with s <= l/2 and pos in 1..l, index(pos, l) is the index of the
\* segment that holds pos, and MIDDLE_SEGMENT exactly when l is no
\* multiple of s and pos is one of the remainder(l) positions in the
\* middle; no assertion fails and pos - remainder(l) does not wrap.
C8_IndexFindsSegment ==
  (segCall.op = "index" /\ m_segmentSize <= segCall.l \div 2
     /\ segCall.pos \in 1 .. segCall.l)
    => LET s == m_segmentSize
           l == segCall.l
           pos == segCall.pos
           res == segCall.res
           n == segments(s, l).v
       IN /\ ~res.abort
          /\ ~res.wrapped
          /\ (res.v = MIDDLE_SEGMENT) = InMiddle(s, l, pos)
          /\ res.v # MIDDLE_SEGMENT
               => /\ res.v \in 0 .. n - 1
                  /\ start(s, l, res.v).v <= pos
                  /\ pos <= start(s, l, res.v).v + s - 1
          /\ \A i \in 0 .. n - 1 : index(s, start(s, l, i).v, l).v = i
          /\ Cardinality({p \in 1 .. l : InMiddle(s, l, p)})
               = remainder(s, l).v

\* a position of the right half that lies in the middle
C8_Witness ==
  /\ segCall.op = "index"
  /\ m_segmentSize = 3
  /\ segCall.l = 13
  /\ segCall.pos = 7
  /\ segCall.res.v = MIDDLE_SEGMENT

\* C9: with 1 <= start <= end <= l, indexRange(start, end, l) has flag
\* false when l < 2s or both ends lie in the middle, and otherwise flag
\* true with the first and the last segment that overlap start..end,
\* first <= second < segments(l), neither MIDDLE_SEGMENT; no assertion
\* fails.
C9_IndexRange ==
  segCall.op = "indexRange"
    => LET s == m_segmentSize
           l == segCall.l
           a == segCall.first
           b == segCall.last
           res == segCall.res
       IN /\ ~res.abort
          /\ IF l < 2 * s \/ (InMiddle(s, l, a) /\ InMiddle(s, l, b))
             THEN res.v[3] = FALSE
             ELSE LET ov == {i \in 0 .. segments(s, l).v - 1 :
                               Overlaps(s, l, i, a, b)}
                  IN /\ res.v[3] = TRUE
                     /\ res.v[1] \in ov
                     /\ res.v[2] \in ov
                     /\ \A i \in ov : res.v[1] <= i /\ i <= res.v[2]
                     /\ res.v[1] # MIDDLE_SEGMENT
                     /\ res.v[2] # MIDDLE_SEGMENT
                     /\ res.v[1] <= res.v[2]
                     /\ res.v[2] < segments(s, l).v

\* a range from the last segment of the left half into the middle
C9_Witness ==
  /\ segCall.op = "indexRange"
  /\ m_segmentSize = 3
  /\ segCall.l = 13
  /\ segCall.first = 6
  /\ segCall.last = 7
  /\ segCall.res.v = <<1, 1, TRUE>>

\* the bytes the main loop compared are equal in the two buffers
ComparedBytesTie ==
  \A j \in 0 .. m_halfSizeOfKmerInBytes - 1 : m_fw[j] = m_rv[j]

\* C11: on a valid window, if the first ceil(k/8) bytes of the two packings
\* are equal then the whole packings are equal and the window is its own
\* reverse complement, which happens for even k only; so the strand the
\* main loop decides for after H bytes is the one a comparison of all B
\* bytes decides for.
C11_PrefixDecides ==
  (phase = "returned" /\ IsValid(Window))
    => LET f == Pack(Window)
           r == Pack(ReverseComplement(Window))
       IN /\ ComparedBytesTie = Tie(Window)
          /\ Tie(Window) => /\ f = r
                            /\ IsPalindrome(Window)
                            /\ m_kmerSize % 2 = 0
          /\ (ret = "rv") = BytesLess(r, f, m_kmerSizeInBytes)
          /\ (ret = "fw") = ~BytesLess(r, f, m_kmerSizeInBytes)

\* two compared bytes tie
C11_Witness ==
  /\ phase = "returned"
  /\ IsValid(Window)
  /\ m_kmerSize = 10
  /\ m_halfSizeOfKmerInBytes = 2
  /\ ComparedBytesTie
  /\ ret = "fw"

\* C13: on a window of valid characters prepSeq does not return NULL.
C13_ValidNeverNull ==
  (phase = "returned" /\ IsValid(Window)) => ret # "NULL"

\* the forward byte is 0xFF (TTTT) and the final byte is partial
C13_Witness ==
  /\ phase = "returned"
  /\ IsValid(Window)
  /\ m_hangingBases = 3
  /\ m_fw[0] = 255
  /\ ret = "rv"

\* C14: every character prepSeq reads has an index in
\* position .. position + k - 1, whatever it returns.
C14_ReadsInsideWindow ==
  phase = "returned"
    => \A i \in reads : position <= i /\ i <= position + m_kmerSize - 1

\* the reverse cursor has gone past index 0
C14_Witness ==
  /\ phase = "returned"
  /\ position = 0
  /\ m_kmerSize = 8
  /\ ret = "rv"
  /\ reads = 0 .. 7

\* what the caller of a finished call gets: NULL or the B bytes pointed to
Result(f) ==
  IF f.ret = "NULL" THEN <<"NULL">> ELSE <<f.ret, f[f.ret]>>

\* the results prepSeq(seq, pos) has on a newly constructed encoder of the
\* same kmer size
FreshResults(seq, pos) ==
  {Result(f) :
     f \in PrepSeqOutcomes(Members, NewBuffer(m_kmerSizeInBytes),
                           NewBuffer(m_kmerSizeInBytes), seq, pos)}

\* C12: after any sequence of prepSeq calls on an instance, the next call
\* returns what a newly constructed encoder of the same kmer size returns
\* for the same sequence and position (NULL, or the same pointer to the
\* same B bytes), and that result is a single one.
C12_ReuseEqualsFresh ==
  phase = "reused"
    => FreshResults(sequence, position)
         = {IF ret = "NULL" THEN <<"NULL">> ELSE <<ret, Returned>>}

\* a later call returns a two-byte reverse packing and has left the
\* forward buffer's second byte zero
C12_Witness ==
  /\ phase = "reused"
  /\ m_kmerSize = 5
  /\ ret = "rv"
  /\ m_rv[1] # 0
  /\ m_fw[1] = 0

\* C15: two prepSeq calls on one instance that interleave can return
\* bytes that differ from what the call returns when it runs alone
\* (C15_Witness is such a state); a call that did not run while the other
\* call was running returns what it returns alone.
C15_AloneAsFresh ==
  \A t \in Threads :
    (threads[t].pc = "done" /\ ~overlapped[t])
      => FreshResults(threads[t].seq, 0) = {Result(threads[t])}

\* a call on a valid window has returned bytes it does not return alone
C15_Witness ==
  \E t \in Threads :
    /\ threads[t].pc = "done"
    /\ overlapped[t]
    /\ threads[t].ret # "NULL"
    /\ IsValid(threads[t].seq)
    /\ \A r \in FreshResults(threads[t].seq, 0) :
         r[2] # threads[t][threads[t].ret]

====
